---- MODULE Spec2Model ----
(***************************************************************************)
(* Model of the RDS control plane MCP server's two stateful utilities in   *)
(* common/utils.py:                                                        *)
(*   - the pending-operation registry (_pending_operations and the         *)
(*     functions add/get/remove_pending_operation and                      *)
(*     cleanup_expired_operations), and                                    *)
(*   - handle_paginated_aws_api_call,                                      *)
(* and of the tool create_performance_report in                            *)
(* tools/db_instance/create_performance_report.py.                         *)
(*                                                                         *)
(* Time is the value time.time() returns, counted in whole seconds.  A     *)
(* stored operation is the Python tuple                                    *)
(* (operation_type, params, expiration_time), written                      *)
(* <<operation_type, params, expiration_time>>; Python's None is the empty *)
(* tuple.                                                                  *)
(***************************************************************************)
EXTENDS Integers, Sequences, FiniteSets, TLC

\* ------------------------------------------------------------------ bounds
\* Number of distinct uuid4 values the model distinguishes.
MaxTokens == 2
\* Number of times the clock is advanced in one behaviour.  The clock only
\* moves forward.
MaxTicks == 3
\* Number of concurrent callers of the confirm entry point.
MaxCallers == 2
\* Number of threads calling the registry's functions concurrently.
MaxThreads == 2
\* Longest page stream and largest page the page source produces.
MaxPages == 4
MaxPageSize == 3
\* Number of times the clock moves, forward or back, in a behaviour in which
\* it is also set back.
MaxSkewMoves == 2
\* Seconds tried on either side of each limit of the analysis period.
MaxSlack == 1

\* -------------------------------------------------------- program constants
\* utils.py:321  EXPIRATION_TIME = 300  # 5 minutes
EXPIRATION_TIME == 300
\* create_performance_report.py lines 29-32.
MIN_DURATION_MINUTES == 5
MAX_DURATION_DAYS == 6
DEFAULT_START_DAYS_AGO == 5
DEFAULT_END_DAYS_AGO == 2

Tokens == 1..MaxTokens
\* The (operation_type, params) pairs callers stage.
StagedInputs == {<<"delete_db_cluster", "cluster-a">>, <<"modify_db_cluster", "cluster-b">>}
\* Amounts of time that pass between two calls: one second, and one second
\* less than the time to live (so that T+299, T+300 and T+301 are all
\* reached from an issue at T).
ClockSteps == {1, EXPIRATION_TIME - 1}

None == << >>

VARIABLES
    pending_operations, \* utils.py:317, token -> <<operation_type, params, expiration_time>>
    now,                \* what time.time() returns
    ticks,              \* how often the clock has advanced
    staged,             \* history: token -> the tuple stored when it was issued
    seen,               \* history: token -> the tuple the first successful get returned
    removeCalled,       \* history: issued tokens remove_pending_operation was called with since
    consumed,           \* history: tokens remove was called with after a get had returned them
    ret                 \* the call just made: [op, token, result, at, repeat]

VARIABLES
    cpc,                \* confirm caller -> "idle", "looked" or "executed"
    ctoken,             \* confirm caller -> the token it presented
    cgot,               \* confirm caller -> what its lookup returned
    executions          \* token -> how often its staged operation was executed

VARIABLES
    tpc,                \* thread -> the statement it is at
    tloc,               \* thread -> its local variables
    tfail               \* thread -> the exception its last call raised, or "none"

VARIABLES
    pages,              \* the pages page_iterator yields, in order
    failAt,             \* the page request that raises (0: none does)
    fetched,            \* page requests made so far
    results,            \* the local list results
    ppc,                \* handle_paginated_aws_api_call: "idle", "start", "loop", "returned", "raised"
    outcome,            \* what the caller receives: [kind, value, error]
    failure,            \* the exception the failing page request raises
    requested,          \* the page requests made, in order
    formatCalls,        \* the records format_function was called with, in order
    cancelled,          \* the calling context has been cancelled
    operation_parameters,   \* the caller's operation_parameters mapping
    caller_parameters,  \* what that mapping held when the call was made
    formatFailOn        \* the record format_function raises on (0: none)

storeVars == <<pending_operations, now, ticks, staged, seen, removeCalled, consumed, ret>>
confirmVars == <<cpc, ctoken, cgot, executions>>
threadVars == <<tpc, tloc, tfail>>
callVars == <<operation_parameters, caller_parameters, formatFailOn>>
pagedVars == <<pages, failAt, fetched, results, ppc, outcome, failure, requested,
              formatCalls, cancelled, callVars>>

\* One call of create_performance_report (tools/db_instance/create_performance_report.py).
VARIABLES
    readonly,           \* what RDSContext.readonly_mode() returns
    start_time,         \* the start_time argument: a time string or None
    end_time,           \* the end_time argument: a time string or None
    rstart,             \* the local start, None until it is assigned
    rend,               \* the local end, None until it is assigned
    rpc,                \* the call's position
    rexc,               \* the type of the exception the call raised
    rmsg,               \* which raise statement raised it
    apiCalls            \* the create_performance_analysis_report calls made

reportVars == <<readonly, start_time, end_time, rstart, rend, rpc, rexc, rmsg, apiCalls>>

\* History of the lookups made while the clock may be set back.
VARIABLES
    absent              \* the issued tokens a get made before the last call
                        \* returned None for

skewVars == <<absent>>

\* ---------------------------------------------------------------- helpers
\* The dict d without key k (del d[k]).
Del(d, k) == [x \in (DOMAIN d) \ {k} |-> d[x]]

\* The dict d with d[k] = v (insert or overwrite).
Put(d, k, v) == [x \in (DOMAIN d) \cup {k} |-> IF x = k THEN v ELSE d[x]]

\* dict.get(k): the value, or None.
Get(d, k) == IF k \in DOMAIN d THEN d[k] ELSE None

\* ------------------------------------------------- the registry's functions
\* str(uuid.uuid4()): a value no earlier call has returned.  The values are
\* opaque, so the unused values are interchangeable: the least one is taken.
generate_confirmation_token(issuedTokens) ==
    CHOOSE t \in Tokens \ issuedTokens : \A u \in Tokens \ issuedTokens : t <= u

\* Faulty variant of add_pending_operation: the expired records are swept
\* before the new record is stored.
add_after_sweep(ops, token, operation_type, params, current_time) ==
    Put([k \in {x \in DOMAIN ops : ~(ops[x][3] < current_time)} |-> ops[k]],
        token, <<operation_type, params, current_time + EXPIRATION_TIME>>)

\* _pending_operations[token] = (operation_type, params, time.time() + EXPIRATION_TIME)
add_pending_operation(ops, token, operation_type, params, current_time) ==
    Put(ops, token, <<operation_type, params, current_time + EXPIRATION_TIME>>)

\* Faulty variants of cleanup_expired_operations: a sweep that deletes nothing, and
\* a sweep whose expiry test is expiration_time <= current_time.
cleanup_deletes_nothing(ops, current_time) == ops

cleanup_not_strict(ops, current_time) ==
    [token \in {k \in DOMAIN ops : ~(ops[k][3] <= current_time)} |-> ops[token]]

\* The tokens whose expiration_time < current_time are deleted.
cleanup_expired_operations(ops, current_time) ==
    LET expired_tokens == {token \in DOMAIN ops : ops[token][3] < current_time}
    IN  [token \in (DOMAIN ops) \ expired_tokens |-> ops[token]]

\* Faulty variants of get_pending_operation: a lookup that does not sweep first, and
\* a lookup that pops the record it returns.
get_without_sweep(ops, token, current_time) == <<ops, Get(ops, token)>>

get_consuming(ops, token, current_time) ==
    LET swept == [k \in {x \in DOMAIN ops : ~(ops[x][3] < current_time)} |-> ops[k]]
    IN  <<Del(swept, token), Get(swept, token)>>

\* Faulty variant of get_pending_operation: the sweep is run only when the
\* token is stored.
get_sweep_on_hit_only(ops, token, current_time) ==
    IF token \in DOMAIN ops
    THEN <<cleanup_expired_operations(ops, current_time),
           Get(cleanup_expired_operations(ops, current_time), token)>>
    ELSE <<ops, None>>

\* Faulty variant of get_pending_operation: an expired record is reported
\* absent and left in the registry.
get_hiding_expired(ops, token, current_time) ==
    <<ops, IF token \in DOMAIN ops /\ ~(ops[token][3] < current_time)
           THEN ops[token] ELSE None>>

\* cleanup_expired_operations(); return _pending_operations.get(token)
\* The pair <<registry after the call, returned value>>.
get_pending_operation(ops, token, current_time) ==
    LET swept == cleanup_expired_operations(ops, current_time)
    IN  <<swept, Get(swept, token)>>

\* Faulty variants of remove_pending_operation: a removal that reports True and
\* leaves the record, and a removal that reports True for an absent token.
remove_keeps_record(ops, token) ==
    IF token \in DOMAIN ops THEN <<ops, TRUE>> ELSE <<ops, FALSE>>

remove_always_true(ops, token) ==
    IF token \in DOMAIN ops THEN <<Del(ops, token), TRUE>> ELSE <<ops, TRUE>>

\* Faulty variant of remove_pending_operation: a removal that also deletes
\* the records that expire no later than the removed one.
remove_and_older(ops, token) ==
    IF token \in DOMAIN ops
    THEN <<[k \in {x \in DOMAIN ops : ops[x][3] > ops[token][3]} |-> ops[k]], TRUE>>
    ELSE <<ops, FALSE>>

\* Faulty variant of remove_pending_operation: a removal that empties the
\* registry.
remove_clears_registry(ops, token) ==
    IF token \in DOMAIN ops THEN << << >>, TRUE>> ELSE <<ops, FALSE>>

\* if token in _pending_operations: del ...; return True / return False
\* The pair <<registry after the call, returned value>>.
remove_pending_operation(ops, token) ==
    IF token \in DOMAIN ops THEN <<Del(ops, token), TRUE>> ELSE <<ops, FALSE>>

\* ------------------------------------------------------------------ actions
\* No call has been made since the clock last advanced.
NoCall(t) == [op |-> "none", token |-> 0, result |-> None, at |-> t, repeat |-> FALSE]

StoreInit ==
    /\ absent = {}
    /\ pending_operations = << >>
    /\ now = 0
    /\ ticks = 0
    /\ staged = << >>
    /\ seen = << >>
    /\ removeCalled = {}
    /\ consumed = {}
    /\ ret = NoCall(0)

Issue(operation_type, params) ==
    /\ Tokens \ DOMAIN staged # {}
    /\ LET token == generate_confirmation_token(DOMAIN staged) IN
        /\ pending_operations' =
               add_pending_operation(pending_operations, token, operation_type, params, now)
        /\ staged' = Put(staged, token, <<operation_type, params, now + EXPIRATION_TIME>>)
        /\ ret' = [op |-> "issue", token |-> token, result |-> token, at |-> now,
                   repeat |-> FALSE]
        /\ UNCHANGED <<now, ticks, seen, removeCalled, consumed>>

Lookup(token) ==
    LET r == get_pending_operation(pending_operations, token, now) IN
        /\ pending_operations' = r[1]
        /\ ret' = [op |-> "get", token |-> token, result |-> r[2], at |-> now,
                   repeat |-> token \in DOMAIN seen]
        /\ seen' = IF r[2] # None /\ token \notin DOMAIN seen
                   THEN Put(seen, token, r[2]) ELSE seen
        /\ UNCHANGED <<now, ticks, staged, removeCalled, consumed>>

Remove(token) ==
    LET r == remove_pending_operation(pending_operations, token) IN
        /\ pending_operations' = r[1]
        /\ ret' = [op |-> "remove", token |-> token, result |-> r[2], at |-> now,
                   repeat |-> token \in removeCalled]
        /\ removeCalled' = IF token \in DOMAIN staged
                           THEN removeCalled \cup {token} ELSE removeCalled
        /\ consumed' = IF token \in DOMAIN seen
                       THEN consumed \cup {token} ELSE consumed
        /\ UNCHANGED <<now, ticks, staged, seen>>

Tick(d) ==
    /\ ticks < MaxTicks
    /\ now' = now + d
    /\ ticks' = ticks + 1
    /\ ret' = NoCall(now')
    /\ UNCHANGED <<pending_operations, staged, seen, removeCalled, consumed>>

\* time.time() is the system's wall clock, which an adjustment sets back: the
\* next reading is d seconds earlier.
SetBack(d) ==
    /\ ticks < MaxTicks
    /\ now' = now - d
    /\ ticks' = ticks + 1
    /\ ret' = NoCall(now')
    /\ UNCHANGED <<pending_operations, staged, seen, removeCalled, consumed>>

\* When the next call or clock move is made, the last call, if it was a get
\* of an issued token that returned None, is recorded.
RecordAbsent ==
    absent' = IF ret.op = "get" /\ ret.result = None /\ ret.token \in DOMAIN staged
              THEN absent \cup {ret.token}
              ELSE absent

\* --------------------------------------------------- the confirm entry point
\* spec.md section 6: "a later confirm entry point accepts that token, calls
\* lookup, executes the named operation if present, then calls remove."
\* Each caller runs the three steps in order; the steps of different callers
\* interleave.
Callers == 1..MaxCallers

ConfirmInit ==
    /\ cpc = [c \in Callers |-> "idle"]
    /\ ctoken = [c \in Callers |-> 0]
    /\ cgot = [c \in Callers |-> None]
    /\ executions = [t \in Tokens |-> 0]

\* lookup(token)
ConfirmLookup(c, token) ==
    /\ cpc[c] = "idle"
    /\ LET r == get_pending_operation(pending_operations, token, now) IN
        /\ pending_operations' = r[1]
        /\ cgot' = [cgot EXCEPT ![c] = r[2]]
    /\ ctoken' = [ctoken EXCEPT ![c] = token]
    /\ cpc' = [cpc EXCEPT ![c] = "looked"]
    /\ UNCHANGED <<now, ticks, staged, seen, removeCalled, consumed, ret, executions>>

\* "executes the named operation if present"
ConfirmExecute(c) ==
    /\ cpc[c] = "looked"
    /\ executions' = IF cgot[c] # None
                      THEN [executions EXCEPT ![ctoken[c]] = @ + 1]
                      ELSE executions
    /\ cpc' = [cpc EXCEPT ![c] = "executed"]
    /\ UNCHANGED <<storeVars, ctoken, cgot>>

\* "then calls remove"
ConfirmRemove(c) ==
    /\ cpc[c] = "executed"
    /\ pending_operations' = remove_pending_operation(pending_operations, ctoken[c])[1]
    /\ cpc' = [cpc EXCEPT ![c] = "idle"]
    /\ cgot' = [cgot EXCEPT ![c] = None]
    /\ ctoken' = [ctoken EXCEPT ![c] = 0]
    /\ UNCHANGED <<now, ticks, staged, seen, removeCalled, consumed, ret, executions>>

ConfirmNext ==
    \/ \E input \in StagedInputs : Issue(input[1], input[2]) /\ UNCHANGED <<confirmVars, threadVars, pagedVars, reportVars, skewVars>>
    \/ \E d \in ClockSteps : Tick(d) /\ UNCHANGED <<confirmVars, threadVars, pagedVars, reportVars, skewVars>>
    \/ \E c \in Callers, token \in Tokens : ConfirmLookup(c, token) /\ UNCHANGED <<threadVars, pagedVars, reportVars, skewVars>>
    \/ \E c \in Callers : ConfirmExecute(c) /\ UNCHANGED <<threadVars, pagedVars, reportVars, skewVars>>
    \/ \E c \in Callers : ConfirmRemove(c) /\ UNCHANGED <<threadVars, pagedVars, reportVars, skewVars>>

\* ------------------------------------------- the functions run by threads
\* The registry's functions statement by statement, as threads of one
\* process run them: the code takes no lock (utils.py:315-389), so a thread
\* switch can fall between any two statements and between two steps of the
\* iteration over _pending_operations.items().
Threads == 1..MaxThreads

IdleLocal == [token |-> 0, tuple |-> None, current_time |-> 0, used |-> 0,
              visited |-> {}, expired_tokens |-> << >>]

ThreadInit ==
    /\ tpc = [th \in Threads |-> "idle"]
    /\ tloc = [th \in Threads |-> IdleLocal]
    /\ tfail = [th \in Threads |-> "none"]

\* The call of thread th returns, or raises the exception exc.
Return(th, exc) ==
    /\ tpc' = [tpc EXCEPT ![th] = "idle"]
    /\ tloc' = [tloc EXCEPT ![th] = IdleLocal]
    /\ tfail' = [tfail EXCEPT ![th] = exc]

\* add_pending_operation, lines 343-344: the token and the expiration time.
ThreadAddStart(th, operation_type, params) ==
    /\ tpc[th] = "idle"
    /\ Tokens \ DOMAIN staged # {}
    /\ LET token == generate_confirmation_token(DOMAIN staged)
           tuple == <<operation_type, params, now + EXPIRATION_TIME>> IN
        /\ staged' = Put(staged, token, tuple)
        /\ tloc' = [tloc EXCEPT ![th] = [IdleLocal EXCEPT !.token = token, !.tuple = tuple]]
    /\ tpc' = [tpc EXCEPT ![th] = "add_store"]
    /\ tfail' = [tfail EXCEPT ![th] = "none"]
    /\ UNCHANGED <<pending_operations, now, ticks, seen, removeCalled, consumed, ret>>

\* add_pending_operation, line 345: _pending_operations[token] = (...)
ThreadAddStore(th) ==
    /\ tpc[th] = "add_store"
    /\ pending_operations' = Put(pending_operations, tloc[th].token, tloc[th].tuple)
    /\ Return(th, "none")
    /\ UNCHANGED <<now, ticks, staged, seen, removeCalled, consumed, ret>>

\* remove_pending_operation, line 374: if token in _pending_operations
ThreadRemoveTest(th, token) ==
    /\ tpc[th] = "idle"
    /\ IF token \in DOMAIN pending_operations
       THEN /\ tpc' = [tpc EXCEPT ![th] = "remove_del"]
            /\ tloc' = [tloc EXCEPT ![th] = [IdleLocal EXCEPT !.token = token]]
            /\ tfail' = [tfail EXCEPT ![th] = "none"]
       ELSE Return(th, "none")
    /\ UNCHANGED storeVars

\* remove_pending_operation, line 375: del _pending_operations[token]
ThreadRemoveDel(th) ==
    /\ tpc[th] = "remove_del"
    /\ IF tloc[th].token \in DOMAIN pending_operations
       THEN /\ pending_operations' = Del(pending_operations, tloc[th].token)
            /\ Return(th, "none")
       ELSE /\ UNCHANGED pending_operations
            /\ Return(th, "KeyError")
    /\ UNCHANGED <<now, ticks, staged, seen, removeCalled, consumed, ret>>

\* get_pending_operation, line 359, and cleanup_expired_operations, lines
\* 382-385: read the clock and start iterating _pending_operations.items();
\* the iterator remembers the size of the dict.
ThreadGetStart(th, token) ==
    /\ tpc[th] = "idle"
    /\ tpc' = [tpc EXCEPT ![th] = "scan"]
    /\ tloc' = [tloc EXCEPT ![th] =
                   [IdleLocal EXCEPT !.token = token, !.current_time = now,
                                     !.used = Cardinality(DOMAIN pending_operations)]]
    /\ tfail' = [tfail EXCEPT ![th] = "none"]
    /\ UNCHANGED storeVars

\* cleanup_expired_operations, lines 383-387: one step of the iteration.  The
\* iterator raises RuntimeError (dictionary changed size during iteration)
\* when the dict no longer has the size it had when the iteration started.
ThreadScan(th) ==
    /\ tpc[th] = "scan"
    /\ LET rest == (DOMAIN pending_operations) \ tloc[th].visited IN
       IF Cardinality(DOMAIN pending_operations) # tloc[th].used
       THEN Return(th, "RuntimeError")
       ELSE IF rest = {}
       THEN /\ tpc' = [tpc EXCEPT ![th] = "sweep"]
            /\ UNCHANGED <<tloc, tfail>>
       ELSE LET token == CHOOSE k \in rest : \A u \in rest : k <= u IN
            /\ tloc' = [tloc EXCEPT
                   ![th].visited = @ \cup {token},
                   ![th].expired_tokens =
                       IF pending_operations[token][3] < tloc[th].current_time
                       THEN Append(@, token) ELSE @]
            /\ UNCHANGED <<tpc, tfail>>
    /\ UNCHANGED storeVars

\* cleanup_expired_operations, lines 388-389: del _pending_operations[token]
\* for the next expired token, or the end of the loop.
ThreadSweep(th) ==
    /\ tpc[th] = "sweep"
    /\ IF tloc[th].expired_tokens = << >>
       THEN /\ tpc' = [tpc EXCEPT ![th] = "get_return"]
            /\ UNCHANGED <<pending_operations, tloc, tfail>>
       ELSE LET token == Head(tloc[th].expired_tokens) IN
            IF token \in DOMAIN pending_operations
            THEN /\ pending_operations' = Del(pending_operations, token)
                 /\ tloc' = [tloc EXCEPT ![th].expired_tokens = Tail(@)]
                 /\ UNCHANGED <<tpc, tfail>>
            ELSE /\ UNCHANGED pending_operations
                 /\ Return(th, "KeyError")
    /\ UNCHANGED <<now, ticks, staged, seen, removeCalled, consumed, ret>>

\* get_pending_operation, line 362: return _pending_operations.get(token)
ThreadGetReturn(th) ==
    /\ tpc[th] = "get_return"
    /\ Return(th, "none")
    /\ UNCHANGED storeVars

ThreadNext ==
    \/ \E th \in Threads, input \in StagedInputs :
           ThreadAddStart(th, input[1], input[2]) /\ UNCHANGED <<confirmVars, pagedVars, reportVars, skewVars>>
    \/ \E th \in Threads : ThreadAddStore(th) /\ UNCHANGED <<confirmVars, pagedVars, reportVars, skewVars>>
    \/ \E th \in Threads, token \in Tokens :
           ThreadRemoveTest(th, token) /\ UNCHANGED <<confirmVars, pagedVars, reportVars, skewVars>>
    \/ \E th \in Threads : ThreadRemoveDel(th) /\ UNCHANGED <<confirmVars, pagedVars, reportVars, skewVars>>
    \/ \E th \in Threads, token \in Tokens :
           ThreadGetStart(th, token) /\ UNCHANGED <<confirmVars, pagedVars, reportVars, skewVars>>
    \/ \E th \in Threads : ThreadScan(th) /\ UNCHANGED <<confirmVars, pagedVars, reportVars, skewVars>>
    \/ \E th \in Threads : ThreadSweep(th) /\ UNCHANGED <<confirmVars, pagedVars, reportVars, skewVars>>
    \/ \E th \in Threads : ThreadGetReturn(th) /\ UNCHANGED <<confirmVars, pagedVars, reportVars, skewVars>>
    \/ \E d \in ClockSteps : Tick(d) /\ UNCHANGED <<confirmVars, threadVars, pagedVars, reportVars, skewVars>>

\* ------------------------------------------- handle_paginated_aws_api_call
\* A page is the response dict of one request: has_key tells whether it holds
\* result_key, items is the list under it.  Raw records are numbers.
Page(has_key, items) == [has_key |-> has_key, items |-> items]

\* Faulty variant of PageGet: a page without result_key gives one null record.
PageGetNullRecord(page) == IF page.has_key THEN page.items ELSE <<0>>

\* page.get(result_key, [])
PageGet(page) == IF page.has_key THEN page.items ELSE << >>

\* format_function(item): the summary built from a raw record.
format_function(item) == <<"summary", item>>

\* [format_function(item) for item in items], in order.
RECURSIVE FormatAll(_)
FormatAll(items) ==
    IF items = << >> THEN << >>
    ELSE <<format_function(Head(items))>> \o FormatAll(Tail(items))

\* Faulty variants of ExtendResults: the inner loop inserting at the front, and the
\* inner loop appending the raw record.
ExtendResultsAtFront(res, page) == FormatAll(PageGet(page)) \o res

ExtendResultsRaw(res, page) == res \o PageGet(page)

\* Faulty variant of ExtendResults: a record whose summary is already in the
\* results is skipped.
RECURSIVE FormatNew(_, _)
FormatNew(res, items) ==
    IF items = << >> THEN res
    ELSE FormatNew(IF \E k \in 1..Len(res) : res[k] = format_function(Head(items))
                   THEN res
                   ELSE Append(res, format_function(Head(items))),
                   Tail(items))

ExtendResultsDeduplicated(res, page) == FormatNew(res, PageGet(page))

\* Lines 63-64: for item in page.get(result_key, []):
\*                  results.append(format_function(item))
ExtendResults(res, page) == res \o FormatAll(PageGet(page))

\* The number of records on the pages before page i of a stream whose
\* pages have the given sizes (-1: the page lacks result_key).
RECURSIVE RecordsBefore(_, _)
RecordsBefore(sizes, i) ==
    IF i <= 1 THEN 0
    ELSE RecordsBefore(sizes, i - 1) + (IF sizes[i - 1] > 0 THEN sizes[i - 1] ELSE 0)

\* The stream with the given page sizes.  Its records are numbered in stream
\* order, or are all the same record when dup holds.
MakePages(sizes, dup) ==
    [i \in DOMAIN sizes |->
        IF sizes[i] < 0 THEN Page(FALSE, << >>)
        ELSE Page(TRUE, [j \in 1..sizes[i] |->
                            IF dup THEN 1 ELSE RecordsBefore(sizes, i) + j])]

\* The exceptions a page request raises (botocore's ClientError codes).
Failures == {"ThrottlingException", "AccessDenied"}

NoOutcome == [kind |-> "none", value |-> << >>, error |-> "none"]

\* RDSContext.get_pagination_config(): the ambient pagination configuration.
get_pagination_config == [MaxItems |-> "max_items"]

\* The operation_parameters a caller passes: the empty mapping, a filter, and
\* mappings that already hold a 'PaginationConfig' of the caller's.
EmptyParameters == << >>

CallerParameters ==
    {EmptyParameters,
     [Filters |-> "engine"],
     [PaginationConfig |-> [MaxItems |-> "callers"]],
     [Filters |-> "engine", PaginationConfig |-> [MaxItems |-> "callers"]]}

\* Faulty variant of AugmentParameters: a 'PaginationConfig' of the caller's
\* is kept.
AugmentIfAbsent(parameters) ==
    IF "PaginationConfig" \in DOMAIN parameters THEN parameters
    ELSE Put(parameters, "PaginationConfig", get_pagination_config)

\* Line 60: operation_parameters['PaginationConfig'] = RDSContext.get_pagination_config()
AugmentParameters(parameters) ==
    Put(parameters, "PaginationConfig", get_pagination_config)

\* Faulty variant of FormatRaises: format_function raises on no record.
FormatNeverRaises(item, bad) == FALSE

\* Line 64: format_function(item) raises on the record bad.
FormatRaises(item, bad) == bad # 0 /\ item = bad

\* The position in items of the first record format_function raises on, or 0.
FirstRaising(items, bad) ==
    IF \E k \in DOMAIN items : FormatRaises(items[k], bad)
    THEN CHOOSE k \in DOMAIN items :
             /\ FormatRaises(items[k], bad)
             /\ \A j \in 1..(k - 1) : ~FormatRaises(items[j], bad)
    ELSE 0

\* The exception format_function raises.
FormatFailure == "ValidationError"

\* No call of handle_paginated_aws_api_call is being made.
PagedIdle ==
    /\ operation_parameters = EmptyParameters
    /\ caller_parameters = EmptyParameters
    /\ formatFailOn = 0
    /\ pages = << >>
    /\ failAt = 0
    /\ failure = "none"
    /\ fetched = 0
    /\ requested = << >>
    /\ formatCalls = << >>
    /\ results = << >>
    /\ cancelled = FALSE
    /\ ppc = "idle"
    /\ outcome = NoOutcome

\* A call starts, on a page source with any stream of at most MaxPages
\* pages of at most MaxPageSize records, any of whose requests may fail.
StreamBegin ==
    /\ \E n \in 0..MaxPages :
         \E sizes \in [1..n -> -1..MaxPageSize], dup \in BOOLEAN :
            pages = MakePages(sizes, dup)
    /\ failAt \in 0..Len(pages)
    /\ failure \in IF failAt = 0 THEN {"none"} ELSE Failures
    /\ fetched = 0
    /\ requested = << >>
    /\ formatCalls = << >>
    /\ results = << >>
    /\ cancelled = FALSE
    /\ ppc = "start"
    /\ outcome = NoOutcome

\* The call list_instances makes: operation_parameters={}, and a
\* format_function that raises on no record.
PagedBegin ==
    /\ StreamBegin
    /\ operation_parameters = EmptyParameters
    /\ caller_parameters = operation_parameters
    /\ formatFailOn = 0

\* A call with any of the caller's mappings.
ParamBegin ==
    /\ StreamBegin
    /\ operation_parameters \in CallerParameters
    /\ caller_parameters = operation_parameters
    /\ formatFailOn = 0

\* A call whose format_function may raise on one of the records.
FormatBegin ==
    /\ StreamBegin
    /\ operation_parameters = EmptyParameters
    /\ caller_parameters = operation_parameters
    /\ formatFailOn \in 0..MaxPageSize

\* Lines 58-61: results = []; the paginator and the page iterator are made.
PagedStart ==
    /\ ppc = "start"
    /\ results' = << >>
    /\ ppc' = "loop"
    /\ operation_parameters' = AugmentParameters(operation_parameters)
    /\ UNCHANGED <<pages, failAt, failure, fetched, requested, formatCalls, cancelled, outcome,
                   caller_parameters, formatFailOn>>

\* Line 64: the records format_function is called with, in call order.
FormatCalls(calls, page) == calls \o PageGet(page)

\* Line 62: the page the for statement asks the iterator for after it has
\* been given n pages.
NextRequest(n) == n + 1

\* Faulty variant of Exhausted: the loop left after its first page.
ExhaustedEarly(n, stream) == n >= 1 \/ n = Len(stream)

\* Faulty variant of Exhausted: a page source that never signals the end of
\* its stream.
ExhaustedNever(n, stream) == n > Len(stream)

\* Line 62: the iterator raises StopIteration once it has given every page of
\* the stream, and not before.
Exhausted(n, stream) == n = Len(stream)

\* Line 62, the request of the next page succeeds; lines 63-64 on that page.
FetchPage ==
    /\ ppc = "loop"
    /\ ~Exhausted(fetched, pages)
    /\ NextRequest(fetched) \in DOMAIN pages
    /\ failAt # NextRequest(fetched)
    /\ FirstRaising(PageGet(pages[NextRequest(fetched)]), formatFailOn) = 0
    /\ fetched' = NextRequest(fetched)
    /\ requested' = Append(requested, NextRequest(fetched))
    /\ results' = ExtendResults(results, pages[NextRequest(fetched)])
    /\ formatCalls' = FormatCalls(formatCalls, pages[NextRequest(fetched)])
    /\ UNCHANGED <<pages, failAt, failure, cancelled, ppc, outcome, callVars>>

\* Faulty variant of OnFetchError: the exception swallowed and the records
\* accumulated so far returned.
ReturnPartialResults(res, exc) == [kind |-> "list", value |-> res, error |-> "none"]

\* What the caller receives when a page request raises exc with res
\* accumulated: nothing in the function catches the exception.
OnFetchError(res, exc) == [kind |-> "exception", value |-> << >>, error |-> exc]

\* Line 62, the request of the next page raises: the exception leaves the
\* function, whose local results is dropped.
FetchFails ==
    /\ ppc = "loop"
    /\ ~Exhausted(fetched, pages)
    /\ failAt = NextRequest(fetched)
    /\ fetched' = NextRequest(fetched)
    /\ requested' = Append(requested, NextRequest(fetched))
    /\ ppc' = "raised"
    /\ outcome' = OnFetchError(results, failure)
    /\ UNCHANGED <<pages, failAt, failure, formatCalls, cancelled, results, callVars>>

\* Faulty variant of ReturnResults: an empty listing reported as an error.
RaiseWhenEmpty(res) ==
    IF res = << >> THEN [kind |-> "exception", value |-> << >>, error |-> "NotFound"]
    ELSE [kind |-> "list", value |-> res, error |-> "none"]

\* Line 66: return results.
ReturnResults(res) == [kind |-> "list", value |-> res, error |-> "none"]

\* Line 62, the iterator is exhausted; line 66: return results.
EndOfStream ==
    /\ ppc = "loop"
    /\ Exhausted(fetched, pages)
    /\ ppc' = "returned"
    /\ outcome' = ReturnResults(results)
    /\ UNCHANGED <<pages, failAt, failure, fetched, requested, formatCalls, cancelled, results,
                   callVars>>

\* The task running list_instances is cancelled while the call is between two
\* page requests.  list_instances calls handle_paginated_aws_api_call without
\* await, and the function has no await and reads no cancellation state: the
\* request is recorded and nothing else changes.
Cancel ==
    /\ ppc = "loop"
    /\ ~cancelled
    /\ cancelled' = TRUE
    /\ UNCHANGED <<pages, failAt, fetched, results, ppc, outcome, failure, requested,
                   formatCalls, callVars>>

\* ------------------------------------------------ create_performance_report
\* timedelta(minutes=1) and timedelta(days=1), in seconds.
SecondsPerMinute == 60

SecondsPerDay == 86400

\* timedelta(minutes=MIN_DURATION_MINUTES) and timedelta(days=MAX_DURATION_DAYS).
MinDuration == MIN_DURATION_MINUTES * SecondsPerMinute

MaxDuration == MAX_DURATION_DAYS * SecondsPerDay

\* What datetime.now() returns in the call: a naive local time, in seconds.
datetime_now == 10 * SecondsPerDay

\* A datetime: its wall-clock reading in seconds, whether it carries a
\* tzinfo, and its UTC offset in seconds when it does.
Datetime(wall, aware, utcoffset) == [wall |-> wall, aware |-> aware, utcoffset |-> utcoffset]

\* A time string: an ISO8601 reading with a zone suffix ("naive": none), or a
\* string datetime.fromisoformat rejects.
TimeString(form, wall, zone) == [form |-> form, wall |-> wall, zone |-> zone]

Zones == {"naive", "Z", "+01:00"}

\* The UTC offset a zone suffix denotes; 'Z' is rewritten to '+00:00'.
UtcOffset(zone) == IF zone = "+01:00" THEN 60 * SecondsPerMinute ELSE 0

\* _parse_iso_datetime: <<exception, datetime>>.
parse_iso_datetime(time_str) ==
    IF time_str.form # "iso" THEN <<"ValueError", None>>
    ELSE <<"none", Datetime(time_str.wall, time_str.zone # "naive", UtcOffset(time_str.zone))>>

\* _get_default_time_range: <<start, end>>, both naive.
get_default_time_range ==
    <<Datetime(datetime_now - DEFAULT_START_DAYS_AGO * SecondsPerDay, FALSE, 0),
      Datetime(datetime_now - DEFAULT_END_DAYS_AGO * SecondsPerDay, FALSE, 0)>>

\* The instant two datetimes of the same kind are compared by.
Instant(dt) == dt.wall - dt.utcoffset

\* _validate_time_range: <<exception, raise statement>>.  Python raises
\* TypeError when an offset-naive and an offset-aware datetime are compared.
validate_time_range(start, end) ==
    IF start.aware # end.aware THEN <<"TypeError", "compare">>
    ELSE IF Instant(start) >= Instant(end) THEN <<"ValueError", "order">>
    ELSE IF Instant(end) - Instant(start) < MinDuration THEN <<"ValueError", "too_short">>
    ELSE IF Instant(end) - Instant(start) > MaxDuration THEN <<"ValueError", "too_long">>
    ELSE <<"none", "none">>

\* Faulty variant of readonly_blocks: the guard never raises.
readonly_ignored(mode) == FALSE

\* Line 200: if RDSContext.readonly_mode(): ... raise ValueError.
readonly_blocks(mode) == mode

\* The durations tried: around zero and around the two limits.
Durations ==
    {b + e : b \in {0, MinDuration, MaxDuration}, e \in (0 - MaxSlack)..MaxSlack}

\* The reading the explicit start times have: the default start.
BaseTime == datetime_now - DEFAULT_START_DAYS_AGO * SecondsPerDay

StartTimes ==
    {None, TimeString("malformed", 0, "naive")}
        \cup {TimeString("iso", BaseTime + UtcOffset(z), z) : z \in Zones}

EndTimes ==
    {None, TimeString("malformed", 0, "naive")}
        \cup {TimeString("iso", BaseTime + dur + UtcOffset(z), z) :
                  dur \in Durations, z \in Zones}

\* What create_performance_analysis_report does: it returns a response with
\* an AnalysisReportId, a response without one, or raises.
ApiResponses == {"report-id", "no-report-id", "ClientError"}

\* No call of create_performance_report is being made.
ReportIdle ==
    /\ readonly = FALSE
    /\ start_time = None
    /\ end_time = None
    /\ rstart = None
    /\ rend = None
    /\ rpc = "idle"
    /\ rexc = "none"
    /\ rmsg = "none"
    /\ apiCalls = 0

\* A call starts, with any mode and any arguments.
ReportBegin ==
    /\ readonly \in BOOLEAN
    /\ start_time \in StartTimes
    /\ end_time \in EndTimes
    /\ rstart = None
    /\ rend = None
    /\ rpc = "guard"
    /\ rexc = "none"
    /\ rmsg = "none"
    /\ apiCalls = 0

\* Lines 200-204.
ReportGuard ==
    /\ rpc = "guard"
    /\ IF readonly_blocks(readonly)
       THEN rpc' = "raised" /\ rexc' = "ValueError" /\ rmsg' = "readonly"
       ELSE rpc' = "parse" /\ UNCHANGED <<rexc, rmsg>>
    /\ UNCHANGED <<readonly, start_time, end_time, rstart, rend, apiCalls>>

\* Line 206, _parse_time_parameters: an argument that is None takes its
\* default; the start is parsed before the end.
ReportParse ==
    /\ rpc = "parse"
    /\ LET ps == IF start_time # None THEN parse_iso_datetime(start_time)
                 ELSE <<"none", get_default_time_range[1]>>
           pe == IF end_time # None THEN parse_iso_datetime(end_time)
                 ELSE <<"none", get_default_time_range[2]>>
       IN  IF ps[1] # "none"
           THEN /\ rpc' = "raised" /\ rexc' = "ValueError" /\ rmsg' = "start_format"
                /\ UNCHANGED <<rstart, rend>>
           ELSE IF pe[1] # "none"
           THEN /\ rpc' = "raised" /\ rexc' = "ValueError" /\ rmsg' = "end_format"
                /\ UNCHANGED <<rstart, rend>>
           ELSE /\ rpc' = "validate" /\ rstart' = ps[2] /\ rend' = pe[2]
                /\ UNCHANGED <<rexc, rmsg>>
    /\ UNCHANGED <<readonly, start_time, end_time, apiCalls>>

\* Line 207, _validate_time_range.
ReportValidate ==
    /\ rpc = "validate"
    /\ LET v == validate_time_range(rstart, rend)
       IN  IF v[1] # "none"
           THEN rpc' = "raised" /\ rexc' = v[1] /\ rmsg' = v[2]
           ELSE rpc' = "call" /\ UNCHANGED <<rexc, rmsg>>
    /\ UNCHANGED <<readonly, start_time, end_time, rstart, rend, apiCalls>>

\* Lines 209-225: the API call, and the test of its response.
ReportCall(response) ==
    /\ rpc = "call"
    /\ apiCalls' = apiCalls + 1
    /\ IF response = "report-id"
       THEN rpc' = "returned" /\ UNCHANGED <<rexc, rmsg>>
       ELSE IF response = "no-report-id"
       THEN rpc' = "raised" /\ rexc' = "ValueError" /\ rmsg' = "no_report_id"
       ELSE rpc' = "raised" /\ rexc' = "ClientError" /\ rmsg' = "api"
    /\ UNCHANGED <<readonly, start_time, end_time, rstart, rend>>

ReportNext ==
    \/ ReportGuard /\ UNCHANGED <<storeVars, confirmVars, threadVars, pagedVars, skewVars>>
    \/ ReportParse /\ UNCHANGED <<storeVars, confirmVars, threadVars, pagedVars, skewVars>>
    \/ ReportValidate /\ UNCHANGED <<storeVars, confirmVars, threadVars, pagedVars, skewVars>>
    \/ \E response \in ApiResponses :
           ReportCall(response) /\ UNCHANGED <<storeVars, confirmVars, threadVars, pagedVars, skewVars>>

PagedNext ==
    \/ PagedStart /\ UNCHANGED <<storeVars, confirmVars, threadVars, reportVars, skewVars>>
    \/ FetchPage /\ UNCHANGED <<storeVars, confirmVars, threadVars, reportVars, skewVars>>
    \/ FetchFails /\ UNCHANGED <<storeVars, confirmVars, threadVars, reportVars, skewVars>>
    \/ EndOfStream /\ UNCHANGED <<storeVars, confirmVars, threadVars, reportVars, skewVars>>

\* Lines 62-64, the request of the next page succeeds and format_function
\* raises on one of its records: the records before it were appended, the
\* exception leaves the function and the local results is dropped.
FormatFails ==
    /\ ppc = "loop"
    /\ ~Exhausted(fetched, pages)
    /\ NextRequest(fetched) \in DOMAIN pages
    /\ failAt # NextRequest(fetched)
    /\ LET items == PageGet(pages[NextRequest(fetched)])
           k == FirstRaising(items, formatFailOn)
       IN  /\ k # 0
           /\ formatCalls' = formatCalls \o SubSeq(items, 1, k)
           /\ results' = results \o FormatAll(SubSeq(items, 1, k - 1))
           /\ outcome' = OnFetchError(results', FormatFailure)
    /\ fetched' = NextRequest(fetched)
    /\ requested' = Append(requested, NextRequest(fetched))
    /\ ppc' = "raised"
    /\ UNCHANGED <<pages, failAt, failure, cancelled, callVars>>

FormatNext ==
    \/ PagedNext
    \/ FormatFails /\ UNCHANGED <<storeVars, confirmVars, threadVars, reportVars, skewVars>>

CancelNext ==
    \/ PagedNext
    \/ Cancel /\ UNCHANGED <<storeVars, confirmVars, threadVars, reportVars, skewVars>>

\* ------------------------------------------------------------ specifications
vars == <<storeVars, confirmVars, threadVars, pagedVars, reportVars, skewVars>>

otherVars == <<confirmVars, threadVars, pagedVars, reportVars, skewVars>>

\* The state after the module is imported.
Init == StoreInit /\ ConfirmInit /\ ThreadInit /\ PagedIdle /\ ReportIdle

Next ==
    \/ \E input \in StagedInputs : Issue(input[1], input[2]) /\ UNCHANGED otherVars
    \/ \E token \in Tokens : Lookup(token) /\ UNCHANGED otherVars
    \/ \E token \in Tokens : Remove(token) /\ UNCHANGED otherVars
    \/ \E d \in ClockSteps : Tick(d) /\ UNCHANGED otherVars

\* The registry's three operations, each called atomically, and the clock.
Spec == Init /\ [][Next]_vars

\* The clock's moves when it is also set back: past a record's lifetime, in
\* either direction.
SkewSteps == {EXPIRATION_TIME + 1}

\* The operation staged when the clock is also set back: what a record holds
\* has no part in whether it is stored.
SkewInputs == {<<"delete_db_cluster", "cluster-a">>}

\* The registry's operations under a clock that is also set back.
SkewNext ==
    \/ \E input \in SkewInputs :
           Issue(input[1], input[2]) /\ RecordAbsent /\ UNCHANGED <<confirmVars, threadVars, pagedVars, reportVars>>
    \/ \E token \in Tokens : Lookup(token) /\ RecordAbsent /\ UNCHANGED <<confirmVars, threadVars, pagedVars, reportVars>>
    \/ \E token \in Tokens : Remove(token) /\ RecordAbsent /\ UNCHANGED <<confirmVars, threadVars, pagedVars, reportVars>>
    \/ \E d \in SkewSteps :
           ticks < MaxSkewMoves /\ Tick(d) /\ RecordAbsent /\ UNCHANGED <<confirmVars, threadVars, pagedVars, reportVars>>
    \/ \E d \in SkewSteps :
           ticks < MaxSkewMoves /\ SetBack(d) /\ RecordAbsent /\ UNCHANGED <<confirmVars, threadVars, pagedVars, reportVars>>

SkewSpec == Init /\ [][SkewNext]_vars

\* The registry's functions run statement by statement by concurrent threads.
ThreadSpec == Init /\ [][ThreadNext]_vars

\* One call of handle_paginated_aws_api_call on any bounded page stream.
PagedInit == StoreInit /\ ConfirmInit /\ ThreadInit /\ PagedBegin /\ ReportIdle

PagedSpec == PagedInit /\ [][PagedNext]_vars

\* The registry used through concurrent confirm calls.
ConfirmSpec == Init /\ [][ConfirmNext]_vars

\* The same call, which keeps running: the function is sequential code with
\* no wait, and every page request is answered by a page, by a failure or by
\* the end of the stream.
PagedFairSpec == PagedInit /\ [][PagedNext]_vars /\ WF_vars(PagedNext)

\* One call of handle_paginated_aws_api_call with any of the caller's
\* operation_parameters.
ParamInit == StoreInit /\ ConfirmInit /\ ThreadInit /\ ParamBegin /\ ReportIdle

ParamSpec == ParamInit /\ [][PagedNext]_vars

\* One call of handle_paginated_aws_api_call whose format_function may raise.
FormatInit == StoreInit /\ ConfirmInit /\ ThreadInit /\ FormatBegin /\ ReportIdle

FormatSpec == FormatInit /\ [][FormatNext]_vars

\* One call of handle_paginated_aws_api_call whose calling task may be
\* cancelled during the fetch.
CancelSpec == PagedInit /\ [][CancelNext]_vars

\* One call of create_performance_report with any mode and arguments.
ReportInit == StoreInit /\ ConfirmInit /\ ThreadInit /\ PagedIdle /\ ReportBegin

ReportSpec == ReportInit /\ [][ReportNext]_vars

\* ------------------------------------------------- claims on the registry
\* The time the token was issued at.
IssuedAt(token) == staged[token][3] - EXPIRATION_TIME

\* C2: a token issued at T and never removed is returned, with the operation
\* type and params it was stored with, by every get at a time t with
\* T <= t < T + 300; every get at a time t > T + 300 returns None; and no
\* get returns a record whose expiration_time is before the time of the call.
TTLBoundary ==
    ret.op = "get" =>
        /\ (ret.token \in DOMAIN staged /\ ret.token \notin removeCalled
               /\ IssuedAt(ret.token) <= ret.at
               /\ ret.at < IssuedAt(ret.token) + EXPIRATION_TIME)
              => ret.result = staged[ret.token]
        /\ (ret.token \in DOMAIN staged
               /\ ret.at > IssuedAt(ret.token) + EXPIRATION_TIME)
              => ret.result = None
        /\ ret.result # None => ~(ret.result[3] < ret.at)

\* C2 witness: a token that an earlier get returned and that was never
\* removed is reported absent one second after its expiry.
TTLBoundaryWitness ==
    /\ ret.op = "get"
    /\ ret.token \in DOMAIN seen
    /\ ret.token \notin removeCalled
    /\ ret.at = IssuedAt(ret.token) + EXPIRATION_TIME + 1
    /\ ret.result = None

\* C3 as stated: a get returns a record only while now < expires_at, and a
\* record with now >= expires_at is reported absent.
VisibleOnlyBeforeExpiry ==
    ret.op = "get" =>
        /\ ret.result # None => ret.at < ret.result[3]
        /\ (ret.token \in DOMAIN staged /\ ret.at >= staged[ret.token][3])
              => ret.result = None

\* C3 as amended: a get returns a record only while now <= expires_at, and a
\* record with now > expires_at is reported absent.
VisibleUntilExpiry ==
    ret.op = "get" =>
        /\ ret.result # None => ret.at <= ret.result[3]
        /\ (ret.token \in DOMAIN staged /\ ret.at > staged[ret.token][3])
              => ret.result = None

\* C3 witness: a get made with records in the registry, one of them past its
\* expiry when the call started, returns a record that has not expired.
VisibleUntilExpiryWitness ==
    /\ ret.op = "get"
    /\ ret.result # None
    /\ ret.at <= ret.result[3]
    /\ \E k \in DOMAIN staged : staged[k][3] < ret.at /\ k \notin removeCalled

\* C4: a sweep at a time equal to a record's expiration_time leaves the
\* record in the registry, and a get of its token at that time returns it.
ExactExpiryPresent ==
    ret.op = "get" =>
        \A k \in (DOMAIN staged) \ removeCalled :
            staged[k][3] = ret.at =>
                /\ k \in DOMAIN pending_operations
                /\ pending_operations[k] = staged[k]
                /\ k = ret.token => ret.result = staged[k]

\* C4 witness: a get at exactly the expiry instant that returned the record.
ExactExpiryWitness ==
    /\ ret.op = "get"
    /\ ret.token \in DOMAIN staged
    /\ ret.at = staged[ret.token][3]
    /\ ret.result = staged[ret.token]

\* C6: once a get has returned a token's record and remove was then called
\* with the token, every later get of the token returns None.
ConsumeOnce ==
    (ret.op = "get" /\ ret.token \in consumed) => ret.result = None

\* C6 witness: a consumed token is looked up again before its expiry while
\* another token's record is in the registry, and is absent.
ConsumeOnceWitness ==
    /\ ret.op = "get"
    /\ ret.token \in consumed
    /\ ret.at < staged[ret.token][3]
    /\ ret.result = None
    /\ \E k \in DOMAIN pending_operations : k # ret.token

\* C7: every remove returns a boolean; on a stored token it returns True and
\* deletes exactly that record; on an absent token it returns False and
\* leaves the registry unchanged; a remove of a token that remove was called
\* with before returns False.
IdempotentRemoval ==
    [][(ret'.op = "remove") =>
         /\ ret'.result \in BOOLEAN
         /\ ret'.token \in DOMAIN pending_operations =>
              /\ ret'.result = TRUE
              /\ DOMAIN pending_operations' = (DOMAIN pending_operations) \ {ret'.token}
              /\ \A k \in DOMAIN pending_operations' :
                     pending_operations'[k] = pending_operations[k]
         /\ ret'.token \notin DOMAIN pending_operations =>
              /\ ret'.result = FALSE
              /\ pending_operations' = pending_operations
         /\ ret'.token \in removeCalled => ret'.result = FALSE
      ]_vars

\* C7 witness: a second remove of an issued, unexpired token returned False
\* and another record is still stored.
IdempotentRemovalWitness ==
    /\ ret.op = "remove"
    /\ ret.repeat
    /\ ret.result = FALSE
    /\ ret.at < staged[ret.token][3]
    /\ pending_operations # << >>

\* C8: when a get has returned a token's record and remove has not been
\* called with the token, every later get of it at a time not after the
\* record's expiration_time returns the same record.
LookupDoesNotConsume ==
    (ret.op = "get" /\ ret.repeat /\ ret.token \notin removeCalled
       /\ ret.at <= seen[ret.token][3])
      => ret.result = seen[ret.token]

\* C8 witness: a repeated get at the expiry instant returns the record the
\* first get returned.
LookupDoesNotConsumeWitness ==
    /\ ret.op = "get"
    /\ ret.repeat
    /\ ret.at = seen[ret.token][3]
    /\ ret.result = seen[ret.token]

\* C17: every get, of a stored, an absent or an expired token, leaves in the
\* registry exactly the records it held before the call whose
\* expiration_time is not before the time of the call, each of them unchanged.
SweepOnEveryLookup ==
    [][(ret'.op = "get") =>
         /\ DOMAIN pending_operations' =
                {k \in DOMAIN pending_operations : pending_operations[k][3] >= ret'.at}
         /\ \A k \in DOMAIN pending_operations' :
                pending_operations'[k] = pending_operations[k]
      ]_vars

\* C17 witness: a get of a token that was never issued, after which an
\* expired record that no remove was called with is gone.
SweepOnEveryLookupWitness ==
    /\ ret.op = "get"
    /\ ret.token \notin DOMAIN staged
    /\ ret.result = None
    /\ \E k \in (DOMAIN staged) \ removeCalled :
           /\ staged[k][3] < ret.at
           /\ k \notin DOMAIN pending_operations

\* C18: in every step a stored record either stays in the registry with the
\* same operation type, params and expiration_time, or leaves it by a remove
\* called with its own token, or leaves it by a get made at a time after its
\* expiration_time.
RecordLifecycle ==
    [][\A k \in DOMAIN pending_operations :
          \/ /\ k \in DOMAIN pending_operations'
             /\ pending_operations'[k] = pending_operations[k]
          \/ /\ k \notin DOMAIN pending_operations'
             /\ ret'.op = "remove"
             /\ ret'.token = k
          \/ /\ k \notin DOMAIN pending_operations'
             /\ ret'.op = "get"
             /\ pending_operations[k][3] < ret'.at
      ]_vars

\* C18 witness: a remove deleted its token's record, and the record of the
\* other token, issued earlier, is still stored as it was issued.
RecordLifecycleWitness ==
    /\ ret.op = "remove"
    /\ ret.result = TRUE
    /\ \E k \in DOMAIN pending_operations :
           /\ k # ret.token
           /\ pending_operations[k] = staged[k]
           /\ IssuedAt(k) < ret.at
           /\ ret.at <= staged[k][3]

\* C24: a remove of a token whose record has expired and is still stored
\* returns True and deletes that record, and every other record, expired or
\* not, stays in the registry as it was.
RemoveIgnoresExpiry ==
    [][(/\ ret'.op = "remove"
        /\ ret'.token \in DOMAIN pending_operations
        /\ pending_operations[ret'.token][3] < ret'.at) =>
         /\ ret'.result = TRUE
         /\ ret'.token \notin DOMAIN pending_operations'
         /\ \A k \in (DOMAIN pending_operations) \ {ret'.token} :
                /\ k \in DOMAIN pending_operations'
                /\ pending_operations'[k] = pending_operations[k]
      ]_vars

\* C24 witness: a first remove of an expired token returned True, and
\* another record that had expired earlier is still stored.
RemoveIgnoresExpiryWitness ==
    /\ ret.op = "remove"
    /\ ret.result = TRUE
    /\ staged[ret.token][3] < ret.at
    /\ \E k \in DOMAIN pending_operations :
           /\ k # ret.token
           /\ pending_operations[k][3] < staged[ret.token][3]

\* C23: once a get of an issued token has returned None, every later get of
\* the token returns None, also at a clock reading before the record's
\* expiration_time and whatever calls were made in between.
AbsenceIsPermanent ==
    (ret.op = "get" /\ ret.token \in absent) => ret.result = None

\* C23 witness: a token that no remove was called with was reported absent
\* by an earlier get; the clock now reads a time before the record's
\* expiration_time, and the get made at that reading reports it absent.
AbsenceIsPermanentWitness ==
    /\ ret.op = "get"
    /\ ret.token \in absent
    /\ ret.token \notin removeCalled
    /\ ret.at < staged[ret.token][3]
    /\ ret.result = None

\* C19: an issue returns a token that was not issued before, stores under it
\* the operation type and params it was given with expiration_time equal to
\* the time of the call plus 300, adds no other entry, and leaves every
\* entry stored before the call, expired ones included, as it was.
IssuePostcondition ==
    [][(ret'.op = "issue") =>
         /\ ret'.result = ret'.token
         /\ ret'.token \notin DOMAIN staged
         /\ ret'.token \notin DOMAIN pending_operations
         /\ DOMAIN pending_operations' = (DOMAIN pending_operations) \cup {ret'.token}
         /\ pending_operations'[ret'.token] = staged'[ret'.token]
         /\ pending_operations'[ret'.token][3] = ret'.at + EXPIRATION_TIME
         /\ <<pending_operations'[ret'.token][1], pending_operations'[ret'.token][2]>>
                \in StagedInputs
         /\ \A k \in DOMAIN pending_operations :
                pending_operations'[k] = pending_operations[k]
      ]_vars

\* C19 witness: after an issue the registry holds the new record and a record
\* that had expired before the call.
IssuePostconditionWitness ==
    /\ ret.op = "issue"
    /\ pending_operations[ret.token] = staged[ret.token]
    /\ \E k \in DOMAIN pending_operations :
           /\ k # ret.token
           /\ pending_operations[k][3] < ret.at

\* --------------------------------------------- claims on the confirm protocol
\* C1: under the confirm protocol a token is a one-time credential: over any
\* sequence and interleaving of confirm calls presenting a token, its staged
\* operation is executed at most once.
ExecutedAtMostOnce == \A t \in Tokens : executions[t] <= 1

\* ------------------------------------------------ claims on concurrent use
\* C9: the registry is guarded by one mutual-exclusion discipline, so that
\* with issue, lookup (and its sweep) and remove run by concurrent callers
\* no interleaving makes an operation fail.
NoOperationFails == \A th \in Threads : tfail[th] = "none"

\* ----------------------------------------------- claims on the paged fetch
\* The records of a stream in page order and, within a page, in record
\* order: what a reader of the whole stream sees.
RECURSIVE StreamRecords(_)
StreamRecords(stream) ==
    IF stream = << >> THEN << >>
    ELSE (IF Head(stream).has_key THEN Head(stream).items ELSE << >>)
             \o StreamRecords(Tail(stream))

\* The sizes of the lists under result_key of the pages of a stream.
PageSizes(stream) == [i \in DOMAIN stream |-> Len(stream[i].items)]

\* C10: when no page request fails the call does not raise, and what it
\* returns is format_function applied to each record of the stream, in page
\* order and then in record order; an empty page does not end the fetch.
PaginationExhaustiveInOrder ==
    failAt = 0 =>
        /\ ppc # "raised"
        /\ ppc = "returned" =>
              /\ outcome.kind = "list"
              /\ Len(outcome.value) = Len(StreamRecords(pages))
              /\ \A k \in 1..Len(outcome.value) :
                     outcome.value[k] = format_function(StreamRecords(pages)[k])

\* C10 witness: pages of sizes 2, 3, 0 and 1 with distinct records gave the
\* six formatted records in the original order.
PaginationWitness ==
    /\ ppc = "returned"
    /\ failAt = 0
    /\ PageSizes(pages) = <<2, 3, 0, 1>>
    /\ StreamRecords(pages) = <<1, 2, 3, 4, 5, 6>>
    /\ outcome.kind = "list"
    /\ outcome.value = <<format_function(1), format_function(2), format_function(3),
                         format_function(4), format_function(5), format_function(6)>>

\* C11: when a page request fails, the call raises the exception of that
\* request and returns no list: the records of the earlier pages do not
\* reach the caller.
PropagatedFailure ==
    failAt # 0 =>
        /\ ppc # "returned"
        /\ outcome.kind # "list"
        /\ ppc = "raised" =>
              outcome = [kind |-> "exception", value |-> << >>, error |-> failure]

\* C11 witness: the second page request raised after the first page had put
\* records in results.
PropagatedFailureWitness ==
    /\ ppc = "raised"
    /\ failAt = 2
    /\ failure = "ThrottlingException"
    /\ results # << >>
    /\ outcome.kind = "exception"
    /\ outcome.error = "ThrottlingException"

\* Every page of the stream has no record: its list under result_key is
\* empty or it has no result_key.
NoRecords(stream) == \A i \in DOMAIN stream : PageGet(stream[i]) = << >>

\* C12: a call on a stream with no page, or whose pages all have an empty
\* list under result_key or lack result_key, does not raise and returns the
\* empty list.
EmptyListing ==
    (failAt = 0 /\ NoRecords(pages)) =>
        /\ ppc # "raised"
        /\ ppc = "returned" =>
              outcome = [kind |-> "list", value |-> << >>, error |-> "none"]

\* C12 witness: a stream of a page with an empty list and a page without
\* result_key gave the empty list.
EmptyListingWitness ==
    /\ ppc = "returned"
    /\ failAt = 0
    /\ Len(pages) = 2
    /\ pages[1].has_key /\ pages[1].items = << >>
    /\ ~pages[2].has_key
    /\ outcome.kind = "list"
    /\ outcome.value = << >>

\* C13: in a call that returns, format_function was called once with each
\* record of the stream, in stream order; the list returned has one element
\* for each record, duplicates included, and each element is what
\* format_function gave for its record, not the record.
TransformPerItem ==
    (failAt = 0 /\ ppc = "returned") =>
        /\ formatCalls = StreamRecords(pages)
        /\ Len(outcome.value) = Len(StreamRecords(pages))
        /\ \A k \in 1..Len(outcome.value) :
               /\ outcome.value[k] = format_function(formatCalls[k])
               /\ outcome.value[k][1] = "summary"
               /\ outcome.value[k][2] = StreamRecords(pages)[k]

\* C13 witness: a stream of two pages holding the same record three times
\* gave three formatted elements.
TransformPerItemWitness ==
    /\ ppc = "returned"
    /\ failAt = 0
    /\ PageSizes(pages) = <<2, 1>>
    /\ StreamRecords(pages) = <<1, 1, 1>>
    /\ formatCalls = <<1, 1, 1>>
    /\ outcome.value = <<format_function(1), format_function(1), format_function(1)>>

\* C20: the i-th page request of a call asks for page i; a call that returns
\* has requested every page of the stream once; a call that raised made its
\* last request for the page whose request failed, and none after it.
EachPageOnce ==
    /\ \A i \in 1..Len(requested) : requested[i] = i
    /\ Len(requested) = fetched
    /\ Len(requested) <= Len(pages)
    /\ ppc = "returned" => Len(requested) = Len(pages)
    /\ ppc = "raised" => Len(requested) = failAt

\* C20 witness: a call on four pages returned after four requests, and so did
\* a call stop after its failing third request.
EachPageOnceWitness ==
    /\ ppc = "raised"
    /\ Len(pages) = 4
    /\ failAt = 3
    /\ requested = <<1, 2, 3>>

\* The stream without its pages that lack result_key.
RECURSIVE WithoutKeyless(_)
WithoutKeyless(stream) ==
    IF stream = << >> THEN << >>
    ELSE (IF Head(stream).has_key THEN <<Head(stream)>> ELSE << >>)
             \o WithoutKeyless(Tail(stream))

\* The results the loop of lines 62-64 builds from res over a stream.
RECURSIVE FetchAll(_, _)
FetchAll(res, stream) ==
    IF stream = << >> THEN res
    ELSE FetchAll(ExtendResults(res, Head(stream)), Tail(stream))

\* C21: a page without result_key adds no record and raises nothing: while
\* the loop runs, and when the call returns, the results are those of the
\* pages fetched so far with the pages lacking result_key taken out.
KeylessPagesSkipped ==
    /\ ppc = "loop" =>
          results = FetchAll(<< >>, WithoutKeyless(SubSeq(pages, 1, fetched)))
    /\ failAt = 0 => ppc # "raised"
    /\ (failAt = 0 /\ ppc = "returned") =>
          /\ outcome.kind = "list"
          /\ outcome.value = FetchAll(<< >>, WithoutKeyless(pages))

\* C21 witness: a page without result_key between a page of one record and a
\* page of two gave the three summaries.
KeylessPagesSkippedWitness ==
    /\ ppc = "returned"
    /\ failAt = 0
    /\ Len(pages) = 3
    /\ pages[1].has_key /\ ~pages[2].has_key /\ pages[3].has_key
    /\ StreamRecords(pages) = <<1, 2, 3>>
    /\ Len(pages[1].items) = 1
    /\ outcome.value = <<format_function(1), format_function(2), format_function(3)>>

\* C22: on every finite stream of finite pages the call eventually finishes:
\* it returns the list, or it raises the failure of the page source.
Termination ==
    <>(\/ ppc = "returned" /\ outcome.kind = "list"
       \/ ppc = "raised" /\ outcome.kind = "exception" /\ outcome.error = failure)

\* C22 witness: the call on the longest stream of the largest pages returned.
TerminationWitness ==
    /\ ppc = "returned"
    /\ failAt = 0
    /\ Len(pages) = MaxPages
    /\ \A i \in DOMAIN pages : Len(pages[i].items) = MaxPageSize
    /\ Len(outcome.value) = MaxPages * MaxPageSize

\* C25: once the paginator was obtained, and when the call has returned or
\* raised, the caller's mapping holds the ambient pagination configuration
\* under 'PaginationConfig', in place of the caller's own if there was one,
\* and holds every other key with the value the caller gave it, and no other
\* key; before that the mapping is as the caller passed it.
ParametersAugmentedInPlace ==
    /\ ppc = "start" => operation_parameters = caller_parameters
    /\ ppc \in {"loop", "returned", "raised"} =>
          /\ DOMAIN operation_parameters =
                 (DOMAIN caller_parameters) \cup {"PaginationConfig"}
          /\ operation_parameters["PaginationConfig"] = get_pagination_config
          /\ \A k \in (DOMAIN caller_parameters) \ {"PaginationConfig"} :
                 operation_parameters[k] = caller_parameters[k]

\* C25 witness: a call that raised on its second page request, made with a
\* filter and a 'PaginationConfig' of the caller's, left the filter and
\* replaced the configuration.
ParametersAugmentedInPlaceWitness ==
    /\ ppc = "raised"
    /\ failAt = 2
    /\ DOMAIN caller_parameters = {"Filters", "PaginationConfig"}
    /\ caller_parameters["PaginationConfig"] # get_pagination_config
    /\ operation_parameters["PaginationConfig"] = get_pagination_config
    /\ operation_parameters["Filters"] = caller_parameters["Filters"]

\* The first page of the stream that holds the record bad, or 0.
PageHolding(stream, bad) ==
    IF bad # 0 /\ \E i \in DOMAIN stream : \E k \in DOMAIN PageGet(stream[i]) :
                     PageGet(stream[i])[k] = bad
    THEN CHOOSE i \in DOMAIN stream :
             /\ \E k \in DOMAIN PageGet(stream[i]) : PageGet(stream[i])[k] = bad
             /\ \A j \in 1..(i - 1) :
                    \A k \in DOMAIN PageGet(stream[j]) : PageGet(stream[j])[k] # bad
    ELSE 0

\* C26: when format_function raises on a record of a page the call reaches,
\* the call does not return a list; it raises format_function's exception,
\* having called format_function last with that record, and it requests no
\* page after the one holding the record.
FormatFailurePropagates ==
    (PageHolding(pages, formatFailOn) # 0
       /\ (failAt = 0 \/ failAt > PageHolding(pages, formatFailOn))) =>
        /\ ppc # "returned"
        /\ outcome.kind # "list"
        /\ Len(requested) <= PageHolding(pages, formatFailOn)
        /\ ppc = "raised" =>
              /\ outcome = [kind |-> "exception", value |-> << >>, error |-> FormatFailure]
              /\ fetched = PageHolding(pages, formatFailOn)
              /\ formatCalls # << >>
              /\ formatCalls[Len(formatCalls)] = formatFailOn

\* C26 witness: format_function raised on the third record, the first of the
\* second page, after two records were appended; the third page was not
\* requested.
FormatFailurePropagatesWitness ==
    /\ ppc = "raised"
    /\ outcome.error = FormatFailure
    /\ formatFailOn = 3
    /\ Len(pages) = 3
    /\ PageHolding(pages, formatFailOn) = 2
    /\ formatCalls = <<1, 2, 3>>
    /\ results = <<format_function(1), format_function(2)>>
    /\ requested = <<1, 2>>

\* C16: once the calling task has been cancelled during a fetch, no further
\* page is requested and the call does not return a list to its caller.
CancellationAbandonsFetch ==
    [][cancelled => (requested' = requested /\ outcome'.kind # "list")]_vars

\* --------------------------------------- claims on create_performance_report
\* C14: in a call made in read-only mode, whatever its start_time and
\* end_time, create_performance_analysis_report is never called, the times
\* are neither parsed nor validated, and the call ends by raising the guard's
\* ValueError.
ReadOnlyGuard ==
    readonly =>
        /\ apiCalls = 0
        /\ rpc \in {"guard", "raised"}
        /\ rstart = None /\ rend = None
        /\ rpc = "raised" => (rexc = "ValueError" /\ rmsg = "readonly")

\* C14 witness: a read-only call with a malformed start_time raised the
\* guard's error, not the parser's.
ReadOnlyGuardWitness ==
    /\ readonly
    /\ rpc = "raised"
    /\ rmsg = "readonly"
    /\ start_time # None /\ start_time.form = "malformed"
    /\ apiCalls = 0

\* The pair has start < end and 5 minutes <= end - start <= 6 days.
PeriodWithinBounds(start, end) ==
    /\ start.aware = end.aware
    /\ Instant(start) < Instant(end)
    /\ Instant(end) - Instant(start) >= MinDuration
    /\ Instant(end) - Instant(start) <= MaxDuration

\* C15: create_performance_analysis_report is called only for a pair with
\* start < end and 5 minutes <= end - start <= 6 days, and a call that is not
\* in read-only mode and ends before the API call ends by raising ValueError.
PeriodBounds ==
    /\ apiCalls > 0 => PeriodWithinBounds(rstart, rend)
    /\ (rpc = "raised" /\ apiCalls = 0) => rexc = "ValueError"
    /\ (rpc = "call" /\ ~readonly) => PeriodWithinBounds(rstart, rend)
    /\ (rpc = "raised" /\ rmsg \in {"order", "too_short", "too_long"})
          => ~PeriodWithinBounds(rstart, rend)

====
